---- MODULE Spec2Model ----
(***************************************************************************)
(* Model of the spacedesk client session (src/spacedesk_protocol.py) and   *)
(* of the controller that stops it (src/app.py).                           *)
(*                                                                         *)
(* Two threads share one Streamer object: the worker thread executes       *)
(* Streamer.run, the GUI thread executes QtApplicationWindow.stop_streaming*)
(* and through it Streamer.stop.  The server is the environment: it writes *)
(* packets to the TCP stream and may close the connection.                 *)
(*                                                                         *)
(* Four further specifications share the module: FairSpec, the session     *)
(* under fair scheduling of the worker; WireSpec, the session with each    *)
(* sendall as the loop of send calls it is; DecoderSpec, the queue between *)
(* the session and the decoder (src/video_decoder.py), fed on the GUI      *)
(* thread and emptied on the decoder thread; and CodecSpec, the packet     *)
(* classes and get_packet_type applied to a range of arguments.            *)
(*                                                                         *)
(* Bytes are integers 0..255, byte strings are sequences of bytes.         *)
(***************************************************************************)
EXTENDS Integers, Sequences, FiniteSets, TLC

\* ---------------------------------------------------------------- bounds
\* Number of packets the server writes in one behaviour.
MaxPackets == 2
\* The same, in the behaviours the fairness specification FairSpec allows.
LivePackets == 1
\* Largest payload size a server VIDEO_DATA header declares.
MaxPayload == 2
\* Number of recv calls in one behaviour that return fewer bytes than were
\* asked for and written, because the rest has not arrived yet.
MaxShort == 2
\* Number of chunks handed to the decoder in one behaviour.
MaxChunks == 52
\* Length of the longest host name the packet codec is given.
MaxHostLen == 134
\* Number of send calls in one behaviour that take only a part of the
\* bytes they are given, because the socket's send buffer is full.
MaxPartial == 1

\* ------------------------------------------------------ program constants
PACKET_SIZE == 128
PAYLOAD_SIZE == 334
CONNECTION_START == 0
PING == 1
VIDEO_DATA == 2
VIDEO_DATA_ACK == 7
DISCONNECT == 8
\* Streamer.__init__'s defaults for the display geometry and the quality.
width == 1920
height == 1080
quality == 100
\* VideoDecoder.__init__: queue.Queue(maxsize=50)
maxsize == 50

\* ------------------------------------------------------------ byte strings
Min(a, b) == IF a < b THEN a ELSE b

Zeros(n) == [i \in 1..n |-> 0]

\* int.to_bytes(n, byteorder="little")
ToBytes(v, n) == [i \in 1..n |-> (v \div (256 ^ (i - 1))) % 256]

\* int.from_bytes(b, byteorder="little")
RECURSIVE FromBytes(_)
FromBytes(b) ==
    IF b = <<>> THEN 0 ELSE b[1] + 256 * FromBytes(Tail(b))

\* Python slice data[a:b] (0-based, end exclusive, clipped to the length).
Slice(data, a, b) == SubSeq(data, a + 1, Min(b, Len(data)))

\* Python slice assignment msg[a:a+Len(bytes)] = bytes, inside the buffer.
Put(msg, a, bytes) ==
    [i \in 1..Len(msg) |->
        IF i > a /\ i <= a + Len(bytes) THEN bytes[i - a] ELSE msg[i]]

\* ------------------------------------------------------------ packet codec
\* Packet.__init__: a zero-filled header.
Packet == Zeros(PACKET_SIZE)

VideoDataAckPacket == Put(Packet, 0, ToBytes(VIDEO_DATA_ACK, 4))

DisconnectPacket == Put(Packet, 0, ToBytes(DISCONNECT, 4))

\* The fields ConnectionStartPacket.__init__ writes into self.msg, as
\* <<offset, size, value>>, in the order of the assignments.
ConnectionStartFields(w, h, q) ==
    << <<0, 4, CONNECTION_START>>, <<4, 4, PAYLOAD_SIZE>>, <<8, 4, 4>>,
       <<12, 4, 8>>, <<16, 4, 0>>, <<20, 4, 1>>, <<24, 4, 3>>, <<28, 4, 2>>,
       <<32, 4, q>>, <<36, 2, 4>>, <<38, 2, 1>>, <<40, 4, 0>>,
       <<44, 2, 60>>, <<46, 2, 4>>, <<48, 4, 1>>, <<52, 4, w>>,
       <<88, 4, h>>, <<124, 4, 0>> >>

\* self.msg after those assignments: byte i is the byte of the field that
\* covers it (the fields do not overlap), zero elsewhere.
ConnectionStartHeader(w, h, q) ==
    LET fields == ConnectionStartFields(w, h, q)
        Covers(k, i) == fields[k][1] < i /\ i <= fields[k][1] + fields[k][2]
    IN  [i \in 1..PACKET_SIZE |->
            IF \E k \in 1..Len(fields) : Covers(k, i)
            THEN LET k == CHOOSE j \in 1..Len(fields) : Covers(j, i)
                 IN  ToBytes(fields[k][3], fields[k][2])[i - fields[k][1]]
            ELSE 0]

\* The host name of the machine the session runs on, as character codes
\* ("pc").
Hostname == <<112, 99>>

\* What socket.gethostname() returns.
VARIABLE gethostname

\* create_uuid_from_string(val).hex: 32 hexadecimal digits determined by
\* val.  hashlib.md5 is a library; the digest is abstracted as 32 copies
\* of one hexadecimal digit derived from the characters of val.
RECURSIVE SumCodes(_)
SumCodes(str) ==
    IF str = <<>> THEN 0
    ELSE IF Len(str) = 1 THEN str[1]
    ELSE LET half == Len(str) \div 2
         IN  SumCodes(SubSeq(str, 1, half)) + SumCodes(SubSeq(str, half + 1, Len(str)))

HexDigit(d) == IF d < 10 THEN 48 + d ELSE 87 + d

create_uuid_from_string(val) == [i \in 1..32 |-> HexDigit(SumCodes(val) % 16)]

\* f"{{{uuid.hex}}} {hostname}"
identification_str(hostname) ==
    <<123>> \o create_uuid_from_string(hostname) \o <<125, 32>> \o hostname

\* self.payload after the loop of ConnectionStartPacket.__init__: 334 zero
\* bytes with character i written as two little-endian bytes at 2i; a
\* slice assignment at or past the end of a bytearray appends, so a string
\* of more than 167 characters makes the payload longer.
ConnectionStartPayload(str) ==
    [i \in 1..(IF 2 * Len(str) > PAYLOAD_SIZE THEN 2 * Len(str) ELSE PAYLOAD_SIZE) |->
        IF i <= 2 * Len(str)
        THEN ToBytes(str[(i + 1) \div 2], 2)[2 - (i % 2)]
        ELSE 0]

\* ConnectionStartPacket(width, height, quality).get_bytes(): the slice
\* assignments of header and payload into a 462-byte buffer.  The second
\* assigns the whole payload to the slice [128:462], and a bytearray
\* grows when a slice is assigned a longer value, so the result is the
\* header followed by all of the payload.
ConnectionStartPacket(w, h, q) ==
    ConnectionStartHeader(w, h, q)
        \o ConnectionStartPayload(identification_str(gethostname))

\* get_packet_type raises ValueError on fewer than 4 bytes ...
PacketTypeRaises(data) == Len(data) < 4

\* A faulty get_packet_type that reads the field after the type field.
get_packet_type_ReadsSize(data) == FromBytes(Slice(data, 4, 8))

\* ... and otherwise returns the little-endian value of data[0:4]; an
\* IntEnum member compares equal to its integer, so the raw value is
\* what the caller's comparisons see for known and unknown types alike.
get_packet_type(data) == FromBytes(Slice(data, 0, 4))

\* get_payload_size raises ValueError on fewer than 8 bytes ...
PayloadSizeRaises(data) == Len(data) < 8

\* ... and otherwise returns the little-endian value of data[4:8].
get_payload_size(data) == FromBytes(Slice(data, 4, 8))

\* ------------------------------------------------------------ the server
\* A header as the server writes it: type and payload size, zero padding.
ServerHeader(type, size) ==
    Put(Put(Packet, 0, ToBytes(type, 4)), 4, ToBytes(size, 4))

\* The payload bytes of a server VIDEO_DATA packet of the given size.
ServerPayload(size) == [i \in 1..size |-> 64 + i]

\* What the server may write: a PING, an echo of the handshake header, a
\* type the client has no branch for (one outside PacketType, and the two
\* members of PacketType that only the client sends), and VIDEO_DATA with
\* an empty payload and with the largest.
ServerPackets ==
    {[type |-> PING, size |-> 0],
     [type |-> CONNECTION_START, size |-> PAYLOAD_SIZE]}
    \cup {[type |-> t, size |-> 0] : t \in {99, VIDEO_DATA_ACK, DISCONNECT}}
    \cup {[type |-> VIDEO_DATA, size |-> n] : n \in {0, MaxPayload}}

ServerBytes(p) ==
    ServerHeader(p.type, p.size)
        \o (IF p.type = VIDEO_DATA THEN ServerPayload(p.size) ELSE <<>>)

\* ------------------------------------------------------------------ state
VARIABLES
    started,       \* QThread.start() was called on the streamer
    pc,            \* the worker's position in Streamer.run
    ctl,           \* the controller's position in stop_streaming / stop
    running,       \* Streamer.running
    connected,     \* sock.connect returned
    peerClosed,    \* the server closed its end of the connection
    inbound,       \* bytes the server wrote that the worker has not read
    srv,           \* the packets the server wrote, in order
    lost,          \* number of written bytes the server's close cut off
    nshort,        \* number of recv calls that returned such a short read
    received,      \* run: the result of sock.recv(PACKET_SIZE)
    payload_size,  \* run: get_payload_size(received)
    payload,       \* receive_size: the accumulator `received`
    consumed,      \* receive_size: number of bytes its recv calls returned
    emitted,       \* the chunks emitted on video_data_signal, in order
    out,           \* the calls of sock.sendall, in order: caller and bytes
    err,           \* the exception that ended run, "" if none
    decoder,       \* the window's self.decoder is set (not None)
    decoder_running, \* VideoDecoder.running
    dpc,           \* the decoder thread's position in VideoDecoder.run
    byte_queue,    \* VideoDecoder.byte_queue: the chunks queued, oldest first
    feed,          \* the GUI thread's position in VideoDecoder.feed_data
    nfed,          \* number of calls of feed_data so far
    dequeued,      \* the chunks the decoder thread took from the queue
    dropped,       \* the chunks feed_data's get_nowait took from the queue
    swallowed,     \* the chunks feed_data gave up on in `except: pass`
    args,          \* codec: the width, height and quality given to a packet
    built,         \* codec: the class of the packet constructed, "" if none
    get_bytes,     \* codec: the packet's get_bytes()
    again,         \* codec: get_bytes() of a second construction
    parsed,        \* codec: get_packet_type(data), -1 before the call
    wire,          \* the bytes the send calls put on the outbound stream
    unsent_run,    \* run's sendall in progress: the bytes not yet sent
    unsent_stop,   \* stop's sendall in progress: the bytes not yet sent
    npartial       \* number of send calls that took only a part

\* A chunk is named by the number of the feed_data call that brought it.

streamerVars == <<started, pc, ctl, running, connected, peerClosed, inbound,
                  srv, lost, nshort,
                  received, payload_size, payload, consumed, emitted, out, err>>

decoderVars == <<decoder, decoder_running, dpc, byte_queue, feed, nfed,
                 dequeued, dropped, swallowed>>

codecVars == <<gethostname, args, built, get_bytes, again, parsed>>

\* Only the specification WireSpec, in which sendall is the loop of send
\* calls it is, keeps these.
wireVars == <<wire, unsent_run, unsent_stop, npartial>>

vars == <<streamerVars, decoderVars, codecVars, wireVars>>

envVars == <<peerClosed, inbound, srv, lost, nshort>>
ctlVars == <<ctl, running>>
locals  == <<received, payload_size, payload, consumed>>

\* Streamer.__init__: running is True, the socket exists and is unconnected.
StreamerInit ==
    /\ started = FALSE
    /\ pc = "connect"
    /\ ctl = "idle"
    /\ running = TRUE
    /\ connected = FALSE
    /\ peerClosed = FALSE
    /\ inbound = <<>>
    /\ srv = <<>>
    /\ lost = 0
    /\ nshort = 0
    /\ received = <<>>
    /\ payload_size = 0
    /\ payload = <<>>
    /\ consumed = 0
    /\ emitted = <<>>
    /\ out = <<>>
    /\ err = ""

\* VideoDecoder.__init__: running is True, the queue is empty.
DecoderInit ==
    /\ decoder = TRUE
    /\ decoder_running = TRUE
    /\ dpc = "build"
    /\ byte_queue = <<>>
    /\ feed = "idle"
    /\ nfed = 0
    /\ dequeued = <<>>
    /\ dropped = <<>>
    /\ swallowed = <<>>

\* No packet has been constructed.
NothingBuilt ==
    /\ built = ""
    /\ get_bytes = <<>>
    /\ again = <<>>
    /\ parsed = -1

\* Nothing has been sent.
WireInit ==
    /\ wire = <<>>
    /\ unsent_run = <<>>
    /\ unsent_stop = <<>>
    /\ npartial = 0

\* The window and its streamer and decoder have been constructed, on the
\* machine called Hostname, with the default geometry and quality.
Init ==
    /\ StreamerInit
    /\ DecoderInit
    /\ gethostname = Hostname
    /\ args = [width |-> width, height |-> height, quality |-> quality]
    /\ NothingBuilt
    /\ WireInit

\* ------------------------------------------------------------- the socket
\* select.select([sock], [], [], timeout) reports the socket readable when
\* bytes have arrived or the peer's close has.  Bytes the server wrote may
\* still be on their way, so with inbound non-empty either answer is
\* possible; with nothing written and no close, the wait times out.
SelectResults ==
    IF inbound # <<>> THEN {TRUE, FALSE}
    ELSE IF peerClosed THEN {TRUE} ELSE {FALSE}

\* The lengths of a short read: the segment that has arrived ends inside
\* the type field of a header, at the end of the type field, or at the end
\* of the size field (the offsets get_packet_type and get_payload_size
\* test the length against), or anywhere inside a payload.
ShortLengths == {1, 4, 8} \cup 1..MaxPayload

\* sock.recv(bufsize) returns at least one and at most bufsize of the bytes
\* that have arrived: a non-empty prefix of inbound of at most bufsize
\* bytes, either a short one or the longest possible.
RecvLengths(bufsize) ==
    {n \in 1..Min(bufsize, Len(inbound)) :
        \/ n = Min(bufsize, Len(inbound))
        \/ n \in ShortLengths /\ nshort < MaxShort}

\* The count of short reads after a recv(bufsize) that returned n bytes.
CountShort(bufsize, n) ==
    nshort' = IF n < Min(bufsize, Len(inbound)) THEN nshort + 1 ELSE nshort

\* sock.sendall(data) on the connected socket: data joins the outbound
\* stream.  `site` names the statement that makes the call.
SendAll(site, data) == out' = Append(out, [site |-> site, data |-> data])

\* ------------------------------------------------------------- the worker
\* The end of one turn of the while loop: the names bound in it (received,
\* payload_size, full_payload) are not read again before they are rebound.
Continue ==
    /\ pc' = "loop"
    /\ received' = <<>>
    /\ payload_size' = 0
    /\ payload' = <<>>
    /\ consumed' = 0

\* An exception leaves run: the thread ends.
Raise(e) ==
    /\ pc' = "raised"
    /\ err' = e

\* QThread.start(), called by start_streaming: run begins on the worker
\* thread.  stop_streaming clears self.decoder, so a start_streaming that
\* comes after it fails before it reaches self.streamer.start().
Start ==
    /\ ~started
    /\ ctl = "idle"
    /\ started' = TRUE
    /\ UNCHANGED <<decoderVars, codecVars, wireVars>>
    /\ UNCHANGED <<pc, ctlVars, connected, envVars, locals, emitted, out, err>>

\* A faulty run that sets the flag when it has connected
\* (`self.running = True`), undoing a stop requested before.
Connect_SetsRunning ==
    /\ started
    /\ pc = "connect"
    /\ connected' = TRUE
    /\ running' = TRUE
    /\ pc' = "handshake"
    /\ UNCHANGED <<decoderVars, codecVars, wireVars>>
    /\ UNCHANGED <<started, ctl, envVars, locals, emitted, out, err>>

\* run: self.sock.connect((self.host, self.port)) succeeds.
Connect ==
    /\ started
    /\ pc = "connect"
    /\ connected' = TRUE
    /\ pc' = "handshake"
    /\ UNCHANGED <<decoderVars, codecVars, wireVars>>
    /\ UNCHANGED <<started, ctlVars, envVars, locals, emitted, out, err>>

\* A faulty handler of the connect error that logs it and goes on to the
\* handshake instead of raising it again.
ConnectFails_GoesOn ==
    /\ started
    /\ pc = "connect"
    /\ pc' = "handshake"
    /\ UNCHANGED <<decoderVars, codecVars, wireVars>>
    /\ UNCHANGED <<started, ctlVars, connected, envVars, locals, emitted, out, err>>

\* run: connect raises; the exception is logged and raised again.
ConnectFails ==
    /\ started
    /\ pc = "connect"
    /\ Raise("OSError")
    /\ UNCHANGED <<decoderVars, codecVars, wireVars>>
    /\ UNCHANGED <<started, ctlVars, connected, envVars, locals, emitted, out>>

\* run: self.sock.sendall(ConnectionStartPacket(...).get_bytes())
SendConnectionStart ==
    /\ pc = "handshake"
    /\ SendAll("handshake", ConnectionStartPacket(width, height, quality))
    /\ pc' = "loop"
    /\ UNCHANGED <<decoderVars, codecVars, wireVars>>
    /\ UNCHANGED <<started, ctlVars, connected, envVars, locals, emitted, err>>

\* A faulty loop test, `while True`, which never looks at the flag.
LoopTest_IgnoresFlag ==
    /\ pc = "loop"
    /\ pc' = "poll"
    /\ UNCHANGED <<decoderVars, codecVars, wireVars>>
    /\ UNCHANGED <<started, ctlVars, connected, envVars, locals, emitted, out, err>>

\* run: while self.running
LoopTest ==
    /\ pc = "loop"
    /\ pc' = IF running THEN "poll" ELSE "exited"
    /\ UNCHANGED <<decoderVars, codecVars, wireVars>>
    /\ UNCHANGED <<started, ctlVars, connected, envVars, locals, emitted, out, err>>

\* run: if not self.wait_for_data(): continue
WaitForData ==
    /\ pc = "poll"
    /\ \E readable \in SelectResults :
          pc' = IF readable THEN "check" ELSE "loop"
    /\ UNCHANGED <<decoderVars, codecVars, wireVars>>
    /\ UNCHANGED <<started, ctlVars, connected, envVars, locals, emitted, out, err>>

\* run: if not self.running: break
CheckRunning ==
    /\ pc = "check"
    /\ pc' = IF running THEN "recv" ELSE "exited"
    /\ UNCHANGED <<decoderVars, codecVars, wireVars>>
    /\ UNCHANGED <<started, ctlVars, connected, envVars, locals, emitted, out, err>>

\* run: the dispatch on the header just received, up to the next call
\* that touches the socket.
Dispatch(data) ==
    IF data = <<>> THEN
        \* "Error receiving packet": continue
        Continue /\ UNCHANGED err
    ELSE IF PacketTypeRaises(data) THEN
        /\ Raise("ValueError")
        /\ received' = data
        /\ UNCHANGED <<payload_size, payload, consumed>>
    ELSE IF get_packet_type(data) = PING THEN
        /\ pc' = "ping"
        /\ received' = data
        /\ UNCHANGED <<payload_size, payload, consumed, err>>
    ELSE IF get_packet_type(data) = CONNECTION_START THEN
        Continue /\ UNCHANGED err
    ELSE IF get_packet_type(data) = VIDEO_DATA THEN
        IF PayloadSizeRaises(data) THEN
            /\ Raise("ValueError")
            /\ received' = data
            /\ UNCHANGED <<payload_size, payload, consumed>>
        ELSE
            /\ pc' = "receive_size"
            /\ received' = data
            /\ payload_size' = get_payload_size(data)
            /\ payload' = <<>>
            /\ consumed' = 0
            /\ UNCHANGED err
    ELSE
        \* unhandled packet type: logged, ignored
        Continue /\ UNCHANGED err

\* run: received = self.sock.recv(Packet.PACKET_SIZE), after select
\* reported the socket readable, and the dispatch that follows.  With no
\* byte left to read the socket is readable because the peer closed, and
\* recv returns the empty string.
RecvHeader ==
    /\ pc = "recv"
    /\ \/ /\ inbound # <<>>
          /\ \E n \in RecvLengths(PACKET_SIZE) :
                /\ inbound' = SubSeq(inbound, n + 1, Len(inbound))
                /\ CountShort(PACKET_SIZE, n)
                /\ Dispatch(SubSeq(inbound, 1, n))
       \/ /\ inbound = <<>>
          /\ UNCHANGED <<inbound, nshort>>
          /\ Dispatch(<<>>)
    /\ UNCHANGED <<decoderVars, codecVars, wireVars>>
    /\ UNCHANGED <<started, ctlVars, connected, peerClosed, srv, lost, emitted, out>>

\* run: self.sock.sendall(received), the answer to a PING.
SendPingResponse ==
    /\ pc = "ping"
    /\ SendAll("ping", received)
    /\ Continue
    /\ UNCHANGED <<decoderVars, codecVars, wireVars>>
    /\ UNCHANGED <<started, ctlVars, connected, envVars, emitted, err>>

\* A faulty receive_size whose recv asks for `size` bytes on every turn
\* instead of the bytes still missing.
ReceiveSizeRecv_AsksSize ==
    /\ pc = "receive_size"
    /\ Len(payload) < payload_size
    /\ inbound # <<>>
    /\ \E n \in RecvLengths(payload_size) :
          /\ payload' = payload \o SubSeq(inbound, 1, n)
          /\ inbound' = SubSeq(inbound, n + 1, Len(inbound))
          /\ CountShort(payload_size, n)
          /\ consumed' = consumed + n
    /\ UNCHANGED <<decoderVars, codecVars, wireVars>>
    /\ UNCHANGED <<started, pc, ctlVars, connected, peerClosed, srv, lost, received,
                   payload_size, emitted, out, err>>

\* receive_size: one turn of the loop with bytes to read (the result of
\* wait_for_data is not looked at):
\* chunk = self.sock.recv(size - len(received)); received.extend(chunk)
ReceiveSizeRecv ==
    /\ pc = "receive_size"
    /\ Len(payload) < payload_size
    /\ inbound # <<>>
    /\ \E n \in RecvLengths(payload_size - Len(payload)) :
          /\ payload' = payload \o SubSeq(inbound, 1, n)
          /\ inbound' = SubSeq(inbound, n + 1, Len(inbound))
          /\ CountShort(payload_size - Len(payload), n)
          /\ consumed' = consumed + n
    /\ UNCHANGED <<decoderVars, codecVars, wireVars>>
    /\ UNCHANGED <<started, pc, ctlVars, connected, peerClosed, srv, lost, received,
                   payload_size, emitted, out, err>>

\* receive_size: recv returns the empty string because the peer closed:
\* raise ConnectionError, which ends run.
ReceiveSizeClosed ==
    /\ pc = "receive_size"
    /\ Len(payload) < payload_size
    /\ inbound = <<>>
    /\ peerClosed
    /\ Raise("ConnectionError")
    /\ UNCHANGED <<decoderVars, codecVars, wireVars>>
    /\ UNCHANGED <<started, ctlVars, connected, envVars, locals, emitted, out>>

\* receive_size: nothing arrives within the socket's timeout of 5 seconds
\* (settimeout in __init__): recv raises socket.timeout, which ends run.
ReceiveSizeTimeout ==
    /\ pc = "receive_size"
    /\ Len(payload) < payload_size
    /\ ~peerClosed
    /\ Raise("timeout")
    /\ UNCHANGED <<decoderVars, codecVars, wireVars>>
    /\ UNCHANGED <<started, ctlVars, connected, envVars, locals, emitted, out>>

\* A faulty run that emits the chunk only if it is not empty
\* (`if full_payload:`).
EmitVideoData_SkipsEmpty ==
    /\ pc = "receive_size"
    /\ Len(payload) >= payload_size
    /\ emitted' = IF payload = <<>> THEN emitted ELSE Append(emitted, payload)
    /\ pc' = "ack"
    /\ UNCHANGED <<decoderVars, codecVars, wireVars>>
    /\ UNCHANGED <<started, ctlVars, connected, envVars, locals, out, err>>

\* A faulty receive_size whose loop also ends when the running flag is
\* cleared (`while len(received) < size and self.running`).
EmitVideoData_StopsOnFlag ==
    /\ pc = "receive_size"
    /\ Len(payload) >= payload_size \/ ~running
    /\ emitted' = Append(emitted, payload)
    /\ pc' = "ack"
    /\ UNCHANGED <<decoderVars, codecVars, wireVars>>
    /\ UNCHANGED <<started, ctlVars, connected, envVars, locals, out, err>>

\* receive_size returns bytes(received); run emits it on video_data_signal.
EmitVideoData ==
    /\ pc = "receive_size"
    /\ Len(payload) >= payload_size
    /\ emitted' = Append(emitted, payload)
    /\ pc' = "ack"
    /\ UNCHANGED <<decoderVars, codecVars, wireVars>>
    /\ UNCHANGED <<started, ctlVars, connected, envVars, locals, out, err>>

\* run: self.sock.sendall(VideoDataAckPacket().get_bytes())
SendAck ==
    /\ pc = "ack"
    /\ SendAll("ack", VideoDataAckPacket)
    /\ Continue
    /\ UNCHANGED <<decoderVars, codecVars, wireVars>>
    /\ UNCHANGED <<started, ctlVars, connected, envVars, emitted, err>>

Worker ==
    \/ Connect
    \/ ConnectFails
    \/ SendConnectionStart
    \/ LoopTest
    \/ WaitForData
    \/ CheckRunning
    \/ RecvHeader
    \/ SendPingResponse
    \/ ReceiveSizeRecv
    \/ ReceiveSizeClosed
    \/ ReceiveSizeTimeout
    \/ EmitVideoData
    \/ SendAck

\* --------------------------------------------------------- the controller
\* stop_streaming -> Streamer.stop: self.running = False
Stop ==
    /\ ctl = "idle"
    /\ running' = FALSE
    /\ ctl' = "send"
    /\ UNCHANGED <<decoderVars, codecVars, wireVars>>
    /\ UNCHANGED <<started, pc, connected, envVars, locals, emitted, out, err>>

\* stop: self.sock.sendall(DisconnectPacket().get_bytes()); on a socket
\* that is not connected sendall raises and nothing is sent.  Neither stop
\* nor stop_streaming closes the socket.
StopSend ==
    /\ ctl = "send"
    /\ IF connected
       THEN SendAll("stop", DisconnectPacket) /\ ctl' = "stopped"
       ELSE UNCHANGED out /\ ctl' = "raised"
    /\ UNCHANGED <<decoderVars, codecVars, wireVars>>
    /\ UNCHANGED <<started, pc, running, connected, envVars, locals, emitted, err>>

Controller == Stop \/ StopSend

\* Whether the socket has been closed: no statement of stop, of
\* stop_streaming or of run calls sock.close().
SocketClosed == FALSE

\* -------------------------------------------------------------- the server
\* The server writes one more packet to the connection.  The worker never
\* asks for more than PACKET_SIZE bytes of a header, so what lies further
\* ahead in the stream is undetermined until fewer than that are unread.
ServerSend(limit) ==
    /\ connected
    /\ ~peerClosed
    /\ Len(srv) < limit
    /\ Len(inbound) < PACKET_SIZE
    /\ \E p \in ServerPackets :
          /\ srv' = Append(srv, p)
          /\ inbound' = inbound \o ServerBytes(p)
    /\ UNCHANGED <<decoderVars, codecVars, wireVars>>
    /\ UNCHANGED <<started, pc, ctlVars, connected, peerClosed, lost, nshort, locals,
                   emitted, out, err>>

\* The payload size of the packet the server wrote last, 0 if it has none.
LastPayload ==
    IF srv # <<>> /\ srv[Len(srv)].type = VIDEO_DATA
    THEN srv[Len(srv)].size ELSE 0

\* How many of the unread bytes still arrive when the server closes: all
\* of them, all but the last k bytes of the payload it wrote last, or none
\* (the close cuts the stream where the worker has read to).
CloseCuts ==
    {0} \cup {Len(inbound) - k : k \in 0..Min(Len(inbound), LastPayload)}

\* The server closes the connection: the worker can still read the bytes
\* that arrive, then reads end of stream.
PeerClose ==
    /\ connected
    /\ ~peerClosed
    /\ peerClosed' = TRUE
    /\ \E m \in CloseCuts :
          /\ inbound' = SubSeq(inbound, 1, m)
          /\ lost' = Len(inbound) - m
    /\ UNCHANGED <<decoderVars, codecVars, wireVars>>
    /\ UNCHANGED <<started, pc, ctlVars, connected, srv, nshort, locals,
                   emitted, out, err>>

Server(limit) == ServerSend(limit) \/ PeerClose

Next == Start \/ Worker \/ Controller \/ Server(MaxPackets)

Spec == Init /\ [][Next]_vars

\* The worker is a thread of its own: the scheduler lets it take its next
\* step, and every call it blocks in (connect, select, recv) returns or
\* raises within the call's timeout.
LiveNext == Start \/ Worker \/ Controller \/ Server(LivePackets)

FairSpec == Init /\ [][LiveNext]_vars /\ WF_vars(Worker)

\* ------------------------------------------------- sendall, call by call
\* sock.sendall(data) is a loop: it calls send on the bytes not yet sent
\* until none are left, and between two send calls the other thread runs.
\* The socket has a timeout, so send does not wait for room for all of
\* its bytes: it takes what the send buffer has room for.  run (on the
\* worker thread) and stop (on the GUI thread) call sendall on the same
\* socket, and nothing keeps the one out while the other is in its loop.

\* The lengths of a partial send: one byte, or half a header.
PartialLengths == {1, PACKET_SIZE \div 2}

\* send(rest) takes all of rest, or a part of it.
SendLengths(rest) ==
    {Len(rest)} \cup
    (IF npartial < MaxPartial THEN {n \in PartialLengths : n < Len(rest)} ELSE {})

\* One send call of a sendall(data) made by the statement `site`, of which
\* `unsent` is still to be sent (nothing, if the call has just begun): it
\* takes n bytes of rest, which go on the stream.
SendSome(site, unsent, data, rest, n) ==
    /\ wire' = wire \o SubSeq(rest, 1, n)
    /\ npartial' = IF n < Len(rest) THEN npartial + 1 ELSE npartial
    /\ out' = IF unsent = <<>> THEN Append(out, [site |-> site, data |-> data])
              ELSE out

\* run: self.sock.sendall(ConnectionStartPacket(...).get_bytes())
WireSendConnectionStart ==
    /\ pc = "handshake"
    /\ LET pkt == ConnectionStartPacket(width, height, quality)
           rest == IF unsent_run = <<>> THEN pkt ELSE unsent_run
       IN  \E n \in SendLengths(rest) :
              /\ SendSome("handshake", unsent_run, pkt, rest, n)
              /\ unsent_run' = SubSeq(rest, n + 1, Len(rest))
              /\ pc' = IF n = Len(rest) THEN "loop" ELSE pc
    /\ UNCHANGED <<decoderVars, codecVars, unsent_stop>>
    /\ UNCHANGED <<started, ctlVars, connected, envVars, locals, emitted, err>>

\* run: self.sock.sendall(received), the answer to a PING.
WireSendPingResponse ==
    /\ pc = "ping"
    /\ LET rest == IF unsent_run = <<>> THEN received ELSE unsent_run
       IN  \E n \in SendLengths(rest) :
              /\ SendSome("ping", unsent_run, received, rest, n)
              /\ unsent_run' = SubSeq(rest, n + 1, Len(rest))
              /\ IF n = Len(rest) THEN Continue ELSE UNCHANGED <<pc, locals>>
    /\ UNCHANGED <<decoderVars, codecVars, unsent_stop>>
    /\ UNCHANGED <<started, ctlVars, connected, envVars, emitted, err>>

\* run: self.sock.sendall(VideoDataAckPacket().get_bytes())
WireSendAck ==
    /\ pc = "ack"
    /\ LET rest == IF unsent_run = <<>> THEN VideoDataAckPacket ELSE unsent_run
       IN  \E n \in SendLengths(rest) :
              /\ SendSome("ack", unsent_run, VideoDataAckPacket, rest, n)
              /\ unsent_run' = SubSeq(rest, n + 1, Len(rest))
              /\ IF n = Len(rest) THEN Continue ELSE UNCHANGED <<pc, locals>>
    /\ UNCHANGED <<decoderVars, codecVars, unsent_stop>>
    /\ UNCHANGED <<started, ctlVars, connected, envVars, emitted, err>>

\* stop: self.sock.sendall(DisconnectPacket().get_bytes()); on a socket
\* that is not connected the first send raises.
WireStopSend ==
    /\ ctl = "send"
    /\ IF connected
       THEN LET rest == IF unsent_stop = <<>> THEN DisconnectPacket ELSE unsent_stop
            IN  \E n \in SendLengths(rest) :
                   /\ SendSome("stop", unsent_stop, DisconnectPacket, rest, n)
                   /\ unsent_stop' = SubSeq(rest, n + 1, Len(rest))
                   /\ ctl' = IF n = Len(rest) THEN "stopped" ELSE ctl
       ELSE /\ ctl' = "raised"
            /\ UNCHANGED <<out, wire, unsent_stop, npartial>>
    /\ UNCHANGED <<decoderVars, codecVars, unsent_run>>
    /\ UNCHANGED <<started, pc, running, connected, envVars, locals, emitted, err>>

\* The session with every sendall as its loop of send calls.
WireNext ==
    \/ Start
    \/ Connect
    \/ ConnectFails
    \/ WireSendConnectionStart
    \/ LoopTest
    \/ WaitForData
    \/ CheckRunning
    \/ RecvHeader
    \/ WireSendPingResponse
    \/ ReceiveSizeRecv
    \/ ReceiveSizeClosed
    \/ ReceiveSizeTimeout
    \/ EmitVideoData
    \/ WireSendAck
    \/ Stop
    \/ WireStopSend
    \/ Server(LivePackets)

WireSpec == Init /\ [][WireNext]_vars

\* ------------------------------------------------------------ the decoder
\* The queue between the session and the decoder (src/video_decoder.py).
\* video_data_signal is connected to on_video_data with a queued
\* connection, so feed_data runs on the GUI thread, one call at a time;
\* VideoDecoder.run takes the chunks on the decoder thread.

\* A faulty feed_data on a queue without a bound (maxsize=0).
FeedData_NoBound ==
    /\ decoder
    /\ feed = "idle"
    /\ nfed < MaxChunks
    /\ nfed' = nfed + 1
    /\ byte_queue' = Append(byte_queue, nfed + 1)
    /\ UNCHANGED <<decoder, decoder_running, dpc, feed, dequeued, dropped, swallowed>>
    /\ UNCHANGED <<streamerVars, codecVars, wireVars>>

\* on_video_data: if self.decoder: self.decoder.feed_data(data), and in
\* it the first self.byte_queue.put_nowait(h264_bytes), which raises
\* queue.Full when the queue holds maxsize chunks.
FeedData ==
    /\ decoder
    /\ feed = "idle"
    /\ nfed < MaxChunks
    /\ nfed' = nfed + 1
    /\ IF Len(byte_queue) < maxsize
       THEN byte_queue' = Append(byte_queue, nfed + 1) /\ feed' = "idle"
       ELSE byte_queue' = byte_queue /\ feed' = "full"
    /\ UNCHANGED <<decoder, decoder_running, dpc, dequeued, dropped, swallowed>>
    /\ UNCHANGED <<streamerVars, codecVars, wireVars>>

\* feed_data, except queue.Full: self.byte_queue.get_nowait(), which takes
\* the oldest chunk, or raises queue.Empty if the decoder thread has taken
\* them all meanwhile; the bare except passes and feed_data returns.
FeedGet ==
    /\ feed = "full"
    /\ IF byte_queue # <<>>
       THEN /\ dropped' = Append(dropped, Head(byte_queue))
            /\ byte_queue' = Tail(byte_queue)
            /\ feed' = "put"
            /\ UNCHANGED swallowed
       ELSE /\ swallowed' = Append(swallowed, nfed)
            /\ feed' = "idle"
            /\ UNCHANGED <<byte_queue, dropped>>
    /\ UNCHANGED <<decoder, decoder_running, dpc, nfed, dequeued>>
    /\ UNCHANGED <<streamerVars, codecVars, wireVars>>

\* feed_data, except queue.Full: the second put_nowait(h264_bytes), inside
\* the same try.
FeedPut ==
    /\ feed = "put"
    /\ IF Len(byte_queue) < maxsize
       THEN byte_queue' = Append(byte_queue, nfed) /\ UNCHANGED swallowed
       ELSE swallowed' = Append(swallowed, nfed) /\ UNCHANGED byte_queue
    /\ feed' = "idle"
    /\ UNCHANGED <<decoder, decoder_running, dpc, nfed, dequeued, dropped>>
    /\ UNCHANGED <<streamerVars, codecVars, wireVars>>

\* stop_streaming, on the GUI thread: self.decoder.stop(), which clears
\* VideoDecoder.running, and self.decoder = None.
StopDecoder ==
    /\ decoder
    /\ feed = "idle"
    /\ decoder' = FALSE
    /\ decoder_running' = FALSE
    /\ UNCHANGED <<dpc, byte_queue, feed, nfed, dequeued, dropped, swallowed>>
    /\ UNCHANGED <<streamerVars, codecVars, wireVars>>

\* VideoDecoder.run: build_pipeline and set_state(PLAYING); if either
\* fails run returns through `finally: self.stop()`.
DecoderBuild ==
    /\ dpc = "build"
    /\ \/ dpc' = "test" /\ UNCHANGED decoder_running
       \/ dpc' = "ended" /\ decoder_running' = FALSE
    /\ UNCHANGED <<decoder, byte_queue, feed, nfed, dequeued, dropped, swallowed>>
    /\ UNCHANGED <<streamerVars, codecVars, wireVars>>

\* VideoDecoder.run: while self.running
DecoderTest ==
    /\ dpc = "test"
    /\ dpc' = IF decoder_running THEN "get" ELSE "ended"
    /\ UNCHANGED <<decoder, decoder_running, byte_queue, feed, nfed, dequeued,
                   dropped, swallowed>>
    /\ UNCHANGED <<streamerVars, codecVars, wireVars>>

\* VideoDecoder.run: h264_data = self.byte_queue.get(timeout=0.01), which
\* returns the oldest chunk (pushed to the pipeline), or raises queue.Empty
\* after the timeout: continue.
DecoderGet ==
    /\ dpc = "get"
    /\ IF byte_queue # <<>>
       THEN /\ dequeued' = Append(dequeued, Head(byte_queue))
            /\ byte_queue' = Tail(byte_queue)
       ELSE UNCHANGED <<byte_queue, dequeued>>
    /\ dpc' = "test"
    /\ UNCHANGED <<decoder, decoder_running, feed, nfed, dropped, swallowed>>
    /\ UNCHANGED <<streamerVars, codecVars, wireVars>>

DecoderNext ==
    \/ FeedData
    \/ FeedGet
    \/ FeedPut
    \/ StopDecoder
    \/ DecoderBuild
    \/ DecoderTest
    \/ DecoderGet

DecoderSpec == Init /\ [][DecoderNext]_vars

\* -------------------------------------------------- the codec on its own
\* The packet classes and get_packet_type applied to given arguments, for
\* the properties of the codec as a function of its inputs.

\* The host names the codec is tried on: "a", "aa", ... up to MaxHostLen.
Hostnames == {[i \in 1..n |-> 97] : n \in 1..MaxHostLen}

\* Valid arguments: positive width and height, quality in 1..100.
Arguments == [width : {1, width}, height : {1, height}, quality : {1, quality}]

CodecInit ==
    /\ StreamerInit
    /\ DecoderInit
    /\ gethostname \in Hostnames
    /\ args \in Arguments
    /\ NothingBuilt
    /\ WireInit

\* get_bytes() of a newly constructed packet of the class.
Construct(class) ==
    CASE class = "ConnectionStartPacket" ->
            ConnectionStartPacket(args.width, args.height, args.quality)
      [] class = "VideoDataAckPacket" -> VideoDataAckPacket
      [] class = "DisconnectPacket" -> DisconnectPacket

\* ConnectionStartPacket(width, height, quality).get_bytes()
BuildConnectionStart ==
    /\ built = ""
    /\ built' = "ConnectionStartPacket"
    /\ get_bytes' = Construct("ConnectionStartPacket")
    /\ UNCHANGED <<gethostname, args, again, parsed>>
    /\ UNCHANGED <<streamerVars, decoderVars, wireVars>>

\* VideoDataAckPacket().get_bytes()
BuildAck ==
    /\ built = ""
    /\ built' = "VideoDataAckPacket"
    /\ get_bytes' = Construct("VideoDataAckPacket")
    /\ UNCHANGED <<gethostname, args, again, parsed>>
    /\ UNCHANGED <<streamerVars, decoderVars, wireVars>>

\* DisconnectPacket().get_bytes()
BuildDisconnect ==
    /\ built = ""
    /\ built' = "DisconnectPacket"
    /\ get_bytes' = Construct("DisconnectPacket")
    /\ UNCHANGED <<gethostname, args, again, parsed>>
    /\ UNCHANGED <<streamerVars, decoderVars, wireVars>>

\* The same packet constructed a second time.
BuildAgain ==
    /\ built # ""
    /\ again = <<>>
    /\ again' = Construct(built)
    /\ UNCHANGED <<gethostname, args, built, get_bytes, parsed>>
    /\ UNCHANGED <<streamerVars, decoderVars, wireVars>>

\* get_packet_type applied to the packet's bytes.
ParseType ==
    /\ built # ""
    /\ parsed = -1
    /\ ~PacketTypeRaises(get_bytes)
    /\ parsed' = get_packet_type(get_bytes)
    /\ UNCHANGED <<gethostname, args, built, get_bytes, again>>
    /\ UNCHANGED <<streamerVars, decoderVars, wireVars>>

CodecNext ==
    \/ BuildConnectionStart
    \/ BuildAck
    \/ BuildDisconnect
    \/ BuildAgain
    \/ ParseType

CodecSpec == CodecInit /\ [][CodecNext]_vars

\* ================================================================ claims
\* Number of sendall calls made by the statement `site`.
Sent(site) == Cardinality({i \in 1..Len(out) : out[i].site = site})

IsVideo(p) == p.type = VIDEO_DATA

\* The VIDEO_DATA packets the server wrote, in order.
VideoPackets == SelectSeq(srv, IsVideo)

\* Number of PING packets the server wrote.
NumPing == Cardinality({i \in 1..Len(srv) : srv[i].type = PING})

\* The worker is in its loop and has read everything the server wrote,
\* and neither side has ended the session.
CaughtUp ==
    /\ pc \in {"loop", "poll"}
    /\ inbound = <<>>
    /\ ctl = "idle"
    /\ ~peerClosed

\* The server closed after the whole header of its last VIDEO_DATA packet
\* arrived, but not the whole payload.
PayloadCut == peerClosed /\ lost > 0 /\ lost <= LastPayload

\* C1: for k VIDEO_DATA packets whose payloads arrive completely exactly k
\* ACKs are sent; the i-th ACK is sent after the i-th payload has been
\* read in full and emitted, never before the emit, never twice for one
\* packet, never without an emit.
C1_AckPerVideoData ==
    /\ Sent("ack") <= Len(emitted)
    /\ Len(emitted) <= Sent("ack") + 1
    /\ Len(emitted) <= Len(VideoPackets)
    /\ \A i \in 1..Len(emitted) :
          i <= Len(VideoPackets) => emitted[i] = ServerPayload(VideoPackets[i].size)
    /\ CaughtUp => Sent("ack") = Len(VideoPackets)

\* C2: whatever the header declares as payload size N and however the
\* bytes are split across reads, receive_size takes exactly N bytes from
\* the socket, never more than N while it runs, and returns one chunk of
\* exactly N bytes, which is the chunk emitted.
C2_ReceiveSizeExact ==
    /\ pc = "receive_size" =>
          /\ consumed = Len(payload)
          /\ Len(payload) <= payload_size
    /\ pc = "ack" =>
          /\ consumed = payload_size
          /\ Len(payload) = payload_size
          /\ emitted[Len(emitted)] = payload

\* Witness of C2: a payload of the largest size, split across two reads,
\* has been returned and emitted after a header that was read whole.
C2_Witness ==
    /\ pc = "ack"
    /\ received = ServerHeader(VIDEO_DATA, MaxPayload)
    /\ payload = ServerPayload(MaxPayload)
    /\ nshort = 1
    /\ MaxPayload >= 2

\* C3: if the peer closes after delivering fewer payload bytes than the
\* VIDEO_DATA header declared, the frame is never emitted and never
\* acknowledged, and the worker does not go on with its loop: it is in
\* the payload read that fails, or has ended.
C3_NoPartialPayload ==
    PayloadCut =>
        /\ Len(emitted) < Len(VideoPackets)
        /\ Sent("ack") < Len(VideoPackets)
        /\ inbound = <<>> => pc \in {"receive_size", "raised", "exited"}

\* C4: a header is interpreted only when all of its 128 bytes were read.
C4_HeaderReadWhole ==
    received # <<>> => Len(received) = PACKET_SIZE

\* C5: a header read that returns zero bytes ends the session: the worker
\* leaves its loop with an error instead of taking another turn.
C5_EofEndsSession ==
    [][(pc = "recv" /\ inbound = <<>> /\ pc' # pc) => pc' = "raised"]_vars

\* C6: every PING is answered by one packet that is byte for byte the 128
\* bytes the server wrote, and the worker stays in its loop.
C6_PingEchoed ==
    /\ \A i \in 1..Len(out) :
          out[i].site = "ping" => out[i].data = ServerHeader(PING, 0)
    /\ Sent("ping") <= NumPing
    /\ CaughtUp => Sent("ping") = NumPing

\* C7: once connected, CONNECTION_START with its payload is sent exactly
\* once and is the first thing sent: nothing, the DISCONNECT of a
\* concurrent stop included, precedes it.
C7_HandshakeFirstOnce ==
    /\ out # <<>> =>
          /\ out[1].site = "handshake"
          /\ out[1].data = ConnectionStartPacket(width, height, quality)
    /\ Sent("handshake") <= 1
    /\ pc \in {"loop", "poll", "check", "recv", "ping", "receive_size", "ack", "exited"}
          => Sent("handshake") = 1

\* C8: a stop request sends exactly one DISCONNECT, which is the last
\* packet sent, and then closes the socket, whether or not the send
\* succeeded.
C8_StopDisconnectsAndCloses ==
    /\ Sent("stop") <= 1
    /\ ctl = "stopped" =>
          /\ Sent("stop") = 1
          /\ out[Len(out)].site = "stop"
          /\ SocketClosed
    /\ ctl = "raised" => SocketClosed

\* The session has ended: stop has sent DISCONNECT, or the worker failed
\* with the connection-lost error.
SessionEnded ==
    \/ ctl = "stopped"
    \/ pc = "raised" /\ err = "ConnectionError"

\* A step in which a recv of the worker takes bytes from the socket.
WorkerReads == peerClosed' = peerClosed /\ Len(inbound') < Len(inbound)

\* C9: once the session has ended nothing is read from the socket,
\* nothing is emitted and nothing is sent, by the worker or by stop.
C9_ClosedIsTerminal ==
    [][SessionEnded => (out' = out /\ emitted' = emitted /\ ~WorkerReads)]_vars

\* The worker thread has ended, or was never started.
WorkerEnded == pc \in {"exited", "raised"} \/ ~started

\* C10: once stop has cleared the running flag the worker leaves its loop:
\* it starts no further poll and no further header read, and under fair
\* scheduling it ends, after the payload read it may be in has completed
\* or failed.
C10_StopEndsLoop ==
    /\ [][~running => /\ ~(pc = "loop" /\ pc' = "poll")
                      /\ ~(pc = "check" /\ pc' = "recv")]_vars
    /\ (~running ~> WorkerEnded)

\* Witness of C10: stop cleared the flag and sent DISCONNECT while the
\* worker was reading a payload; the worker finished the read, emitted,
\* acknowledged, and left the loop.
C10_Witness ==
    /\ pc = "exited"
    /\ ~running
    /\ Len(out) >= 2
    /\ out[Len(out) - 1].site = "stop"
    /\ out[Len(out)].site = "ack"

\* The session has reached an end: stop has run to its end (it returned or
\* raised), or the worker thread has ended (it left the loop or an
\* exception left run).
ExitPath == ctl \in {"stopped", "raised"} \/ pc \in {"exited", "raised"}

\* C11: on every exit path of the session (a normal stop, a failed
\* connect or send, a worker that ends on a lost connection or an uncaught
\* error) the socket has been closed: there is no end state with the
\* socket still open.
C11_SocketReleased == ExitPath => SocketClosed

\* A packet of a type run has no branch for.
Unhandled(p) == p.type \notin {PING, CONNECTION_START, VIDEO_DATA}

\* C12: a header of a type other than PING, CONNECTION_START and
\* VIDEO_DATA (99, or an inbound VIDEO_DATA_ACK or DISCONNECT) is ignored:
\* it ends no session, nothing is sent and nothing emitted for it, and the
\* packets around it are still dispatched as what they are: once the
\* worker has read everything, each PING has its echo and each VIDEO_DATA
\* its chunk and its ACK.
C12_UnknownTypeIgnored ==
    (\E i \in 1..Len(srv) : Unhandled(srv[i])) =>
        /\ err # "ValueError"
        /\ Sent("ping") <= NumPing
        /\ Sent("ack") <= Len(VideoPackets)
        /\ Len(emitted) <= Len(VideoPackets)
        /\ \A i \in 1..Len(emitted) :
              i <= Len(VideoPackets) => emitted[i] = ServerPayload(VideoPackets[i].size)
        /\ CaughtUp => /\ Sent("ping") = NumPing
                       /\ Sent("ack") = Len(VideoPackets)
                       /\ Len(emitted) = Len(VideoPackets)

\* The worker's call of sock.connect has raised.
ConnectFailed == started /\ ~connected /\ pc # "connect"

\* C14: a failed connect is fatal and is not retried: the exception leaves
\* run, so no CONNECTION_START (nor anything else) is sent, the loop is
\* never entered, no chunk is emitted, and the worker never comes back to
\* the connect: it is attempted once.
C14_ConnectFailureFatal ==
    /\ [](ConnectFailed =>
            /\ pc = "raised"
            /\ err = "OSError"
            /\ out = <<>>
            /\ emitted = <<>>
            /\ srv = <<>>)
    /\ [][ConnectFailed => (pc' = pc /\ connected' = connected)]_vars
    /\ [][pc' = "connect" => pc = "connect"]_vars

\* Witness of C14: the connect failed and run ended with the error; a
\* stop that followed found the socket unconnected and sent nothing.
C14_Witness ==
    /\ pc = "raised"
    /\ err = "OSError"
    /\ ~connected
    /\ ctl = "raised"
    /\ out = <<>>

\* A step in which the header read of run returns between 1 and 7 bytes
\* (only that recv takes bytes from the socket while pc is "recv").
ShortHeaderRead ==
    /\ pc = "recv"
    /\ pc' # pc
    /\ Len(inbound) - Len(inbound') \in 1..7

\* C15: a header read of fewer than 8 bytes, whatever its length and its
\* type field, is rejected without ending the session: the bytes are
\* skipped, nothing is dispatched on them (no echo, no payload read, no
\* chunk, no ACK) and the worker takes the next turn of its loop.
C15_ShortHeaderSkipped ==
    [][ShortHeaderRead =>
          /\ pc' = "loop"
          /\ err' = ""
          /\ out' = out
          /\ emitted' = emitted]_vars

\* C18: the payload read does not look at the running flag: with the flag
\* cleared by stop, receive_size is left only by returning all of the
\* declared bytes, which run then emits as one chunk, or by an exception
\* (the peer closed, or the socket timed out); it never returns a shorter
\* chunk because of the stop.
C18_PayloadReadNotInterrupted ==
    [][(~running /\ pc = "receive_size" /\ pc' # pc) =>
          \/ /\ pc' = "ack"
             /\ Len(payload) = payload_size
             /\ emitted' = Append(emitted, payload)
          \/ /\ pc' = "raised"
             /\ err' \in {"ConnectionError", "timeout"}
             /\ emitted' = emitted]_vars

\* Witness of C18: stop cleared the flag and sent DISCONNECT as the last
\* thing sent so far, the payload of the largest size arrived in two
\* reads, and receive_size returned all of it, which run has emitted.
C18_Witness ==
    /\ pc = "ack"
    /\ ~running
    /\ ctl = "stopped"
    /\ out[Len(out)].site = "stop"
    /\ nshort >= 1
    /\ received = ServerHeader(VIDEO_DATA, MaxPayload)
    /\ payload = ServerPayload(MaxPayload)
    /\ emitted[Len(emitted)] = ServerPayload(MaxPayload)

\* Number of bytes of the packets in pkts on the wire.
RECURSIVE WireLen(_)
WireLen(pkts) ==
    IF pkts = <<>> THEN 0 ELSE Len(ServerBytes(Head(pkts))) + WireLen(Tail(pkts))

\* Number of bytes the worker has taken from the socket.
BytesRead == WireLen(srv) - lost - Len(inbound)

\* The server has written packets, a CONNECTION_START among them, and no
\* VIDEO_DATA.
OnlyHeaders ==
    /\ \E i \in 1..Len(srv) : srv[i].type = CONNECTION_START
    /\ \A i \in 1..Len(srv) : srv[i].type # VIDEO_DATA

\* C20: an inbound CONNECTION_START, like every packet other than
\* VIDEO_DATA, costs the worker its 128 header bytes and no more: the size
\* field (334) is not used to read on, so between two header reads the
\* worker stands at a packet boundary; nothing is emitted or acknowledged,
\* no payload read is begun, only PINGs are answered, and the session does
\* not end on it.
C20_ConnectionStartIgnored ==
    OnlyHeaders =>
        /\ pc \notin {"receive_size", "ack", "raised"}
        /\ err = ""
        /\ emitted = <<>>
        /\ Sent("ack") = 0
        /\ Sent("ping") <= NumPing
        /\ pc \in {"loop", "poll", "check", "recv", "exited"}
              => BytesRead % PACKET_SIZE = 0
        /\ CaughtUp => Sent("ping") = NumPing

\* The elements of a sequence.
Range(seq) == {seq[i] : i \in 1..Len(seq)}

\* The chunks of seq are in arrival order, none twice.
InArrivalOrder(seq) == \A i, j \in 1..Len(seq) : i < j => seq[i] < seq[j]

\* C13: when feed_data finds the queue full it drops one chunk, the
\* oldest in the queue, and enqueues the new one, in every interleaving
\* with the decoder thread's dequeues: feed_data never gives up on the new
\* chunk, and when it has returned the newest chunk is in the queue or
\* already with the decoder.
C13_DropOldest ==
    /\ swallowed = <<>>
    /\ \A i \in 1..Len(dropped) : \A j \in 1..Len(byte_queue) :
          dropped[i] < byte_queue[j]
    /\ (feed = "idle" /\ nfed > 0) => nfed \in Range(byte_queue) \cup Range(dequeued)

\* C19: the queue never holds more than maxsize (50) chunks, and what the
\* decoder takes from it is a subsequence of what was fed: chunks that
\* were fed, in arrival order, none twice, and none of them also dropped
\* or still queued.
C19_QueueBoundedOrdered ==
    /\ Len(byte_queue) <= maxsize
    /\ InArrivalOrder(dequeued \o byte_queue)
    /\ Range(dequeued) \cup Range(byte_queue) \subseteq 1..nfed
    /\ Range(dequeued) \cap Range(dropped) = {}

\* Witness of C19: the queue is full again after feed_data dropped a
\* chunk from the full queue, and the decoder has taken chunks.
C19_Witness ==
    /\ Len(byte_queue) = maxsize
    /\ dropped # <<>>
    /\ dequeued # <<>>
    /\ feed = "idle"
    /\ byte_queue[Len(byte_queue)] = nfed

\* Byte i (from 1) of the 334-byte payload that holds the identification
\* string str, two little-endian bytes per character, cut off at 167
\* characters and padded with zeros.
TruncatedPayloadByte(str, i) ==
    IF i <= 2 * Len(str)
    THEN ToBytes(str[(i + 1) \div 2], 2)[2 - (i % 2)]
    ELSE 0

\* C16: for every host name the handshake is 128 + 334 = 462 bytes: the
\* header, then a payload of exactly 334 bytes that holds the
\* identification string, cut off after 167 characters if it is longer;
\* a second construction gives the same bytes.
C16_HandshakePayloadFixed ==
    built = "ConnectionStartPacket" =>
        LET str == identification_str(gethostname)
        IN  /\ Len(get_bytes) = PACKET_SIZE + PAYLOAD_SIZE
            /\ \A i \in 1..PAYLOAD_SIZE :
                  PACKET_SIZE + i <= Len(get_bytes) =>
                      get_bytes[PACKET_SIZE + i] = TruncatedPayloadByte(str, i)
            /\ again # <<>> => again = get_bytes

\* The type each packet class writes into its header.
TypeOf(class) ==
    CASE class = "ConnectionStartPacket" -> CONNECTION_START
      [] class = "VideoDataAckPacket" -> VIDEO_DATA_ACK
      [] class = "DisconnectPacket" -> DISCONNECT

\* C17: get_packet_type applied to the bytes of a packet the codec built
\* gives the type of the packet's class, for ConnectionStartPacket with any
\* valid width, height and quality, for VideoDataAckPacket and for
\* DisconnectPacket; the last two are 128 bytes, the type in the first
\* four, little-endian, and zero everywhere else.
C17_TypeRoundTrip ==
    /\ (built # "" /\ parsed # -1) => parsed = TypeOf(built)
    /\ built \in {"VideoDataAckPacket", "DisconnectPacket"} =>
          /\ Len(get_bytes) = PACKET_SIZE
          /\ get_bytes[1] = TypeOf(built)
          /\ \A i \in 2..PACKET_SIZE : get_bytes[i] = 0

\* Witness of C17: a CONNECTION_START packet built for the smallest valid
\* quality and the default geometry has been parsed back to its type.
C17_Witness ==
    /\ built = "ConnectionStartPacket"
    /\ args = [width |-> width, height |-> height, quality |-> 1]
    /\ Len(get_bytes) >= PACKET_SIZE
    /\ get_bytes[33] = 1
    /\ parsed = CONNECTION_START

\* The bytes of the sendall calls in calls, one call after the other.
RECURSIVE Whole(_)
Whole(calls) ==
    IF calls = <<>> THEN <<>> ELSE Head(calls).data \o Whole(Tail(calls))

\* C21: the outbound stream is a concatenation of whole packets: whenever
\* no sendall is in the middle of its bytes, the stream is the packets of
\* the sendall calls made so far (handshake, PING echoes, ACKs,
\* DISCONNECT), each in one piece, also when stop sends its DISCONNECT
\* while the worker is in the middle of a sendall.
C21_WholePacketsOnWire ==
    (unsent_run = <<>> /\ unsent_stop = <<>>) => wire = Whole(out)

\* The worker has read up to the end of one of the packets the server
\* wrote (or has read nothing).
AtPacketBoundary ==
    \E k \in 0..Len(srv) : BytesRead = WireLen(SubSeq(srv, 1, k))

\* run is handling a VIDEO_DATA header that declares a payload of size 0.
EmptyPayload == pc \in {"receive_size", "ack"} /\ payload_size = 0

BeforeLoop == pc \in {"connect", "handshake"}

\* C23: the running flag is written only by stop, from true to false, and
\* never becomes true again; the worker does not look at it before the
\* loop: with the flag already false it still connects (or raises the
\* connect error) and sends the CONNECTION_START handshake, and at the
\* loop test it exits, having read nothing.  In particular, when stop has
\* run to its end before the worker connected, the worker never enters the
\* loop body, reads no byte and emits nothing.
C23_FlagOnlyCleared ==
    /\ [][running' => running]_vars
    /\ [][running' # running => (ctl = "idle" /\ ctl' = "send" /\ pc' = pc)]_vars
    /\ [][(~running /\ pc = "connect" /\ pc' # pc) =>
             \/ pc' = "handshake" /\ connected'
             \/ pc' = "raised" /\ err' = "OSError"]_vars
    /\ [][(~running /\ pc = "handshake" /\ pc' # pc) =>
             /\ pc' = "loop"
             /\ out' = Append(out, [site |-> "handshake",
                                    data |-> ConnectionStartPacket(width, height, quality)])]_vars
    /\ [][(~running /\ pc = "loop" /\ pc' # pc) => pc' = "exited"]_vars
    /\ [][(~running /\ (BeforeLoop \/ pc = "loop")) => ~WorkerReads]_vars
    /\ [](ctl = "raised" =>
             /\ ~running
             /\ pc \in {"connect", "handshake", "loop", "exited", "raised"}
             /\ BytesRead = 0
             /\ emitted = <<>>
             /\ Sent("handshake") = (IF pc \in {"loop", "exited"} THEN 1 ELSE 0)
             /\ Len(out) = Sent("handshake"))

\* Witness of C23: stop ran before the worker connected (its sendall
\* raised on the unconnected socket); the worker has then connected, sent
\* the handshake and left run at the first loop test, while the server's
\* bytes wait unread.
C23_Witness ==
    /\ ctl = "raised"
    /\ ~running
    /\ pc = "exited"
    /\ connected
    /\ Len(out) = 1
    /\ out[1].site = "handshake"
    /\ Len(inbound) >= PACKET_SIZE
    /\ BytesRead = 0

====
